---- MODULE Spec2Model ----
(***************************************************************************)
(* A model of bin/harmonise.py: the schema-driven normaliser of the        *)
(* brownfield-sites data.  Strings are TLA+ strings, handled a character   *)
(* at a time; decimals are (sign, coefficient digits, exponent) triples as *)
(* in Python's decimal module, so no machine integer ever holds a          *)
(* coefficient.                                                            *)
(***************************************************************************)
EXTENDS Integers, Sequences, FiniteSets, TLC

VARIABLES
    pc,                 \* position of the script
    schema,             \* the parsed schema document (line 31)
    reference,          \* rows of var/cache/organisation.csv
    patch,              \* rows of patch/organisation.csv
    organisation,       \* load_organisations' local dict, id -> row
    organisation_uri,   \* the global index (line 35)
    ri,                 \* rows of the table being loaded that are consumed
    row_number,         \* the global row counter (line 40)
    input,              \* the rows the reader has yielded so far
    row,                \* the input row being processed
    fi,                 \* how many fields of the row the loop of line 257 has taken
    field,              \* the global loop variable of line 257: a field name
    o,                  \* the output row being assembled
    output,             \* the rows written to the output file
    log,                \* the rows written to the issue log
    call,               \* the last call of normalise: arguments and outcome
    geo,                \* the last call of normalise_geometry
    exc                 \* the uncaught exception that ended the run, or ""

vars == <<pc, schema, reference, patch, organisation, organisation_uri, ri,
          row_number, input, row, fi, field, o, output, log, call, geo, exc>>

----------------------------------------------------------------------------
(* Bounds *)

MaxRows == 2

----------------------------------------------------------------------------
(* Strings *)

\* s[i-1:i], "" outside the string
Ch(s, i) == IF i \in 1..Len(s) THEN SubSeq(s, i, i) ELSE ""

\* s[:n]
Take(s, n) ==
    IF n <= 0 THEN "" ELSE IF n >= Len(s) THEN s ELSE SubSeq(s, 1, n)

\* s[n:]
Drop(s, n) ==
    IF n <= 0 THEN s ELSE IF n >= Len(s) THEN "" ELSE SubSeq(s, n + 1, Len(s))

UpperChars == "ABCDEFGHIJKLMNOPQRSTUVWXYZ"

LowerChars == "abcdefghijklmnopqrstuvwxyz"

DigitChars == "0123456789"

\* the digits, each with its value
Digits == [c \in {Ch(DigitChars, i) : i \in 1..10} |->
            (CHOOSE i \in 1..10 : Ch(DigitChars, i) = c) - 1]

IsDigit(c) == c \in DOMAIN Digits

DigitVal(c) == Digits[c]

\* the capital letters, each with its small letter
Capitals == [c \in {Ch(UpperChars, i) : i \in 1..26} |->
              Ch(LowerChars, CHOOSE i \in 1..26 : Ch(UpperChars, i) = c)]

LowerCh(c) == IF c \in DOMAIN Capitals THEN Capitals[c] ELSE c

RECURSIVE Lower(_)
\* str.lower()
Lower(s) == IF s = "" THEN "" ELSE LowerCh(Ch(s, 1)) \o Lower(Drop(s, 1))

RECURSIVE LStrip(_, _)
\* str.lstrip(chars)
LStrip(s, chars) ==
    IF s # "" /\ Ch(s, 1) \in chars THEN LStrip(Drop(s, 1), chars) ELSE s

RECURSIVE RStrip(_, _)
\* str.rstrip(chars)
RStrip(s, chars) ==
    IF s # "" /\ Ch(s, Len(s)) \in chars
    THEN RStrip(Take(s, Len(s) - 1), chars)
    ELSE s

\* str.strip(chars)
Strip(s, chars) == LStrip(RStrip(s, chars), chars)

Whitespace == {" ", "\t", "\n", "\r"}

RECURSIVE RemoveChars(_, _)
\* s with every character of the set chars removed
RemoveChars(s, chars) ==
    IF s = "" THEN ""
    ELSE (IF Ch(s, 1) \in chars THEN "" ELSE Ch(s, 1))
            \o RemoveChars(Drop(s, 1), chars)

\* "".join(s.split())
JoinSplit(s) == RemoveChars(s, Whitespace)

AllDigits(s) == \A i \in 1..Len(s) : IsDigit(Ch(s, i))

RECURSIVE DigitsPrefixLen(_)
\* the length of the longest prefix of s made of digits
DigitsPrefixLen(s) ==
    IF s # "" /\ IsDigit(Ch(s, 1)) THEN 1 + DigitsPrefixLen(Drop(s, 1)) ELSE 0

RECURSIVE StrToNat(_)
\* the number a short string of digits denotes
StrToNat(s) ==
    IF s = "" THEN 0
    ELSE 10 * StrToNat(Take(s, Len(s) - 1)) + DigitVal(Ch(s, Len(s)))

RECURSIVE NatToStr(_)
\* str(n) for a natural number n
NatToStr(n) ==
    IF n < 10 THEN Ch(DigitChars, n + 1)
    ELSE NatToStr(n \div 10) \o Ch(DigitChars, (n % 10) + 1)

RECURSIVE Zeros(_)
\* '0' * n
Zeros(n) == IF n <= 0 THEN "" ELSE "0" \o Zeros(n - 1)

\* a string of digits without its leading zeros ("0" when nothing is left)
StripLeadingZeros(s) ==
    LET t == LStrip(s, {"0"}) IN IF t = "" THEN "0" ELSE t

RECURSIVE IncDigits(_)
\* str(int(s) + 1) for a string of digits s
IncDigits(s) ==
    IF s = "" THEN "1"
    ELSE IF Ch(s, Len(s)) = "9"
         THEN IncDigits(Take(s, Len(s) - 1)) \o "0"
         ELSE Take(s, Len(s) - 1) \o Ch(DigitChars, DigitVal(Ch(s, Len(s))) + 2)

RECURSIVE Find(_, _, _)
\* the first position >= from at which sub occurs in s, 0 when there is none
Find(s, sub, from) ==
    IF from + Len(sub) - 1 > Len(s) THEN 0
    ELSE IF Take(Drop(s, from - 1), Len(sub)) = sub THEN from
         ELSE Find(s, sub, from + 1)

RECURSIVE RFindCh(_, _)
\* the last position of the character c in s, 0 when there is none
RFindCh(s, c) ==
    IF s = "" THEN 0
    ELSE IF Ch(s, Len(s)) = c THEN Len(s)
         ELSE RFindCh(Take(s, Len(s) - 1), c)

\* dict.get(key, default)
Get(d, key, default) == IF key \in DOMAIN d THEN d[key] ELSE default

----------------------------------------------------------------------------
(* The issue log and the outcome of a normaliser *)

\* log_issue numbering the issues instead of the rows: what C10 rules out
log_issue_numbered(f, datatype, value) ==
    << ("row-number" :> Len(log) + 1)
         @@ [field |-> f, datatype |-> datatype, value |-> value] >>

\* log_issue: the row it writes, stamped with the global row counter
log_issue(f, datatype, value) ==
    << ("row-number" :> row_number)
         @@ [field |-> f, datatype |-> datatype, value |-> value] >>

\* a normaliser returned v and logged nothing
Returned(v) == [ret |-> v, log |-> <<>>, exc |-> ""]

\* a normaliser logged the issue and returned ""
Logged(issue) == [ret |-> "", log |-> issue, exc |-> ""]

\* a normaliser let the exception e escape
Raised(e) == [ret |-> "", log |-> <<>>, exc |-> e]

----------------------------------------------------------------------------
(* Integers: int(), str(int) *)

\* the number of "0" characters s ends with
RECURSIVE TrailingZeros(_)
TrailingZeros(s) ==
    IF s # "" /\ Ch(s, Len(s)) = "0"
    THEN 1 + TrailingZeros(Take(s, Len(s) - 1))
    ELSE 0

\* value without the match of \.0+$ that ends at position e, if there is one
\* with z zeros
without_dot_zeros(value, e, z) ==
    IF z >= 1 /\ e - z >= 1 /\ Ch(value, e - z) = "."
    THEN Take(value, e - z - 1) \o Drop(value, e)
    ELSE value

\* the position at which $ matches: the end of the string, or just before a
\* final newline
dollar(value) ==
    IF Ch(value, Len(value)) = "\n" THEN Len(value) - 1 ELSE Len(value)

\* normalise_integer.regex.sub("", value, 1) for the regex \.0+$
integer_regex_sub(value) ==
    without_dot_zeros(value, dollar(value),
                      TrailingZeros(Take(value, dollar(value))))

\* the digits of an int() literal: digits, single underscores between them
IsIntBody(b) ==
    /\ b # ""
    /\ \A i \in 1..Len(b) : IsDigit(Ch(b, i)) \/ Ch(b, i) = "_"
    /\ IsDigit(Ch(b, 1))
    /\ IsDigit(Ch(b, Len(b)))
    /\ Find(b, "__", 1) = 0

\* the int with the given sign and literal digits, if they are digits at all
int_of(sign, b) ==
    IF IsIntBody(b)
    THEN [ok |-> TRUE, sign |-> sign,
          digits |-> StripLeadingZeros(RemoveChars(b, {"_"}))]
    ELSE [ok |-> FALSE, sign |-> 0, digits |-> "0"]

\* int of a string without surrounding whitespace
int_of_stripped(s) ==
    IF Ch(s, 1) \in {"+", "-"}
    THEN int_of(IF Ch(s, 1) = "-" THEN 1 ELSE 0, Drop(s, 1))
    ELSE int_of(0, s)

\* int(value): [ok, sign, digits]; ok is FALSE where int() raises ValueError
int(value) == int_of_stripped(Strip(value, Whitespace))

\* format_integer: str(int(n)) of an int n
format_integer(n) ==
    (IF n.sign = 1 /\ n.digits # "0" THEN "-" ELSE "") \o n.digits

\* lines 59 to 64, for the value the regex leaves and its int
integer_or_issue(f, value, n) ==
    IF ~n.ok
    THEN Logged(log_issue(f, "integer", value))
    ELSE Returned(format_integer(n))

\* normalise_integer: the issue carries the value the regex leaves
normalise_integer(f, value) ==
    integer_or_issue(f, integer_regex_sub(value), int(integer_regex_sub(value)))

----------------------------------------------------------------------------
(* decimal.Decimal under the default context: 28 digits, ROUND_HALF_EVEN.   *)
(* A Decimal is [kind, sign, int, exp]: kind is "finite", "inf", "nan" or   *)
(* "snan"; int is the coefficient as a string of digits, as in Python.      *)

\* the precision of Python's default decimal context
ContextPrec == 28

\* the default of format_decimal's precision parameter
DefaultPrecision == 6

Finite(sign, digits, exp) ==
    [kind |-> "finite", sign |-> sign, int |-> digits, exp |-> exp]

\* an infinity or a NaN; a NaN keeps its diagnostic digits as coefficient
Special(kind, sign, diag) ==
    [kind |-> kind, sign |-> sign, int |-> LStrip(diag, {"0"}), exp |-> 0]

\* what Decimal(value) is where the constructor raises InvalidOperation
NotADecimal == Special("invalid", 0, "")

\* the exponent part of a numeric string: "" or e[+-]?digits
IsExponent(t) ==
    IF t = "" THEN TRUE
    ELSE /\ Ch(t, 1) = "e"
         /\ LET u == IF Len(t) >= 2 /\ Ch(t, 2) \in {"+", "-"}
                     THEN Drop(t, 2) ELSE Drop(t, 1)
            IN  u # "" /\ AllDigits(u)

ExponentValue(t) ==
    IF t = "" THEN 0
    ELSE IF Ch(t, 2) = "-" THEN 0 - StrToNat(Drop(t, 2))
    ELSE IF Ch(t, 2) = "+" THEN StrToNat(Drop(t, 2))
    ELSE StrToNat(Drop(t, 1))

\* an infinity or a NaN, by its name in small letters, or NotADecimal
decimal_special(sign, b) ==
    IF b \in {"inf", "infinity"} THEN Special("inf", sign, "")
    ELSE IF Take(b, 3) = "nan" /\ AllDigits(Drop(b, 3))
         THEN Special("nan", sign, Drop(b, 3))
    ELSE IF Take(b, 4) = "snan" /\ AllDigits(Drop(b, 4))
         THEN Special("snan", sign, Drop(b, 4))
    ELSE NotADecimal

\* the Decimal of sign, integer digits, fraction digits and exponent part
decimal_numeric(sign, b, intpart, frac, exponent) ==
    IF Len(intpart) + Len(frac) > 0 /\ IsExponent(exponent)
    THEN Finite(sign, StripLeadingZeros(intpart \o frac),
                ExponentValue(exponent) - Len(frac))
    ELSE decimal_special(sign, b)

\* the Decimal of sign, integer digits and what follows them
decimal_fraction(sign, b, intpart, rest) ==
    IF Ch(rest, 1) = "."
    THEN decimal_numeric(sign, b, intpart,
                         Take(Drop(rest, 1), DigitsPrefixLen(Drop(rest, 1))),
                         Drop(rest, 1 + DigitsPrefixLen(Drop(rest, 1))))
    ELSE decimal_numeric(sign, b, intpart, "", rest)

\* the Decimal of a sign and an unsigned literal in small letters
decimal_unsigned(sign, b) ==
    decimal_fraction(sign, b, Take(b, DigitsPrefixLen(b)),
                     Drop(b, DigitsPrefixLen(b)))

\* the Decimal of a literal without whitespace and underscores
decimal_signed(s) ==
    IF Ch(s, 1) \in {"+", "-"}
    THEN decimal_unsigned(IF Ch(s, 1) = "-" THEN 1 ELSE 0, Lower(Drop(s, 1)))
    ELSE decimal_unsigned(0, Lower(s))

\* Decimal(value) of a string: surrounding whitespace and underscores are
\* dropped, then sign, digits with an optional point and exponent, or
\* Inf, Infinity, NaN, sNaN (any case, NaN with optional diagnostic digits)
Decimal(value) == decimal_signed(RemoveChars(Strip(value, Whitespace), {"_"}))

IsZero(d) == d.kind = "finite" /\ d.int = "0"

\* Decimal._round_half_even: does dropping all but the first keep digits of
\* the coefficient round the rest up
RoundsUp(digits, keep) ==
    IF /\ Ch(digits, keep + 1) = "5"
       /\ Drop(digits, keep + 1) = Zeros(Len(digits) - keep - 1)
       /\ (keep = 0 \/ Ch(digits, keep) \in {"0", "2", "4", "6", "8"})
    THEN FALSE
    ELSE Ch(digits, keep + 1) \in {"5", "6", "7", "8", "9"}

\* the first keep digits, one added where the digits dropped round up
rounded_digits(digits, keep) ==
    IF RoundsUp(digits, keep)
    THEN IncDigits(IF keep = 0 THEN "0" ELSE Take(digits, keep))
    ELSE IF keep = 0 THEN "0" ELSE Take(digits, keep)

\* Decimal._rescale(exp, ROUND_HALF_EVEN) of a non-zero finite d
Rescale(d, exp) ==
    IF d.exp >= exp
    THEN Finite(d.sign, d.int \o Zeros(d.exp - exp), exp)
    ELSE IF Len(d.int) + d.exp - exp < 0
         THEN Finite(d.sign, rounded_digits("1", 0), exp)
         ELSE Finite(d.sign, rounded_digits(d.int, Len(d.int) + d.exp - exp), exp)

\* the rescaled q, if its coefficient fits the context
fits_context(q) == [ok |-> Len(q.int) <= ContextPrec, d |-> q]

\* round(d, precision) = d.quantize(Decimal("1e-precision")): [ok, d], ok
\* FALSE where it raises InvalidOperation
round(d, precision) ==
    CASE d.kind = "nan" -> [ok |-> TRUE, d |-> d]
      [] d.kind \in {"inf", "snan"} -> [ok |-> FALSE, d |-> d]
      [] IsZero(d) -> [ok |-> TRUE, d |-> Finite(d.sign, "0", 0 - precision)]
      [] OTHER ->
            IF Len(d.int) + d.exp + precision > ContextPrec
            THEN [ok |-> FALSE, d |-> d]
            ELSE fits_context(Rescale(d, 0 - precision))

\* Decimal.normalize(): trailing zeros of the coefficient go to the exponent
normalize(d) ==
    CASE d.kind # "finite" -> d
      [] IsZero(d) -> Finite(d.sign, "0", 0)
      [] OTHER ->
            LET z == TrailingZeros(d.int)
            IN  Finite(d.sign, Take(d.int, Len(d.int) - z), d.exp + z)

\* "%+d" % n
SignedStr(n) == IF n < 0 THEN "-" \o NatToStr(0 - n) ELSE "+" \o NatToStr(n)

\* the digits of d with the point after the first dotplace of them, and the
\* exponent that makes up for it
str_finite(d, leftdigits, dotplace) ==
    (IF dotplace <= 0 THEN "0." \o Zeros(0 - dotplace) \o d.int
     ELSE IF dotplace >= Len(d.int)
          THEN d.int \o Zeros(dotplace - Len(d.int))
          ELSE Take(d.int, dotplace) \o "." \o Drop(d.int, dotplace))
    \o (IF leftdigits = dotplace THEN ""
        ELSE "E" \o SignedStr(leftdigits - dotplace))

\* str(d) of a Decimal without its sign: scientific notation when the
\* exponent is positive or the value is below 1e-6
str_unsigned(d) ==
    CASE d.kind = "inf" -> "Infinity"
      [] d.kind = "nan" -> "NaN" \o d.int
      [] d.kind = "snan" -> "sNaN" \o d.int
      [] OTHER ->
            str_finite(d, d.exp + Len(d.int),
                       IF d.exp <= 0 /\ d.exp + Len(d.int) > -6
                       THEN d.exp + Len(d.int) ELSE 1)

\* str(d) of a Decimal
str(d) == (IF d.sign = 1 THEN "-" ELSE "") \o str_unsigned(d)

\* the string of the rounded r, where round did not raise
formatted(r) == [ok |-> r.ok, s |-> IF r.ok THEN str(normalize(r.d)) ELSE ""]

\* format_decimal(value, precision) of a Decimal: [ok, s], ok FALSE where
\* round raises InvalidOperation
format_decimal(d, precision) == formatted(round(d, precision))

\* line 76: format_decimal runs outside the try block
returned_formatted(s) ==
    IF ~s.ok THEN Raised("InvalidOperation") ELSE Returned(s.s)

\* lines 71 to 76, for the Decimal of the value
decimal_or_issue(f, value, d) ==
    IF d.kind = "invalid"
    THEN Logged(log_issue(f, "decimal", value))
    ELSE returned_formatted(format_decimal(d, DefaultPrecision))

\* normalise_decimal: the precision argument is not passed on
normalise_decimal(f, value, precision) ==
    decimal_or_issue(f, value, Decimal(value))

----------------------------------------------------------------------------
(* datetime.strptime and strftime("%Y-%m-%d") *)

\* the patterns of normalise_date, in the order it tries them
DatePatterns ==
    << "%Y-%m-%d",
       "%Y%m%d",
       "%Y-%m-%dT%H:%M:%S.000Z",
       "%Y-%m-%dT%H:%M:%SZ",
       "%Y-%m-%dT%H:%M:%S",
       "%Y-%m-%d %H:%M:%S",
       "%Y/%m/%d",
       "%Y %m %d",
       "%Y.%m.%d",
       "%Y-%d-%m",
       "%Y",
       "%Y.0",
       "%d/%m/%Y %H:%M:%S",
       "%d/%m/%Y %H:%M",
       "%d-%m-%Y",
       "%d-%m-%y",
       "%d-%m-%Y",
       "%d.%m.%Y",
       "%d.%m.%y",
       "%d/%m/%Y",
       "%d/%m/%y",
       "%d-%b-%Y",
       "%d-%b-%y",
       "%d %B %Y",
       "%b %d, %Y",
       "%b %d, %y",
       "%b-%y",
       "%m/%d/%Y" >>

MonthNames ==
    << "january", "february", "march", "april", "may", "june", "july",
       "august", "september", "october", "november", "december" >>

RECURSIVE Tokens(_)
\* a format as the sequence of its directives ("%Y") and literal characters
Tokens(fmt) ==
    IF fmt = "" THEN <<>>
    ELSE IF Ch(fmt, 1) = "%" THEN <<Take(fmt, 2)>> \o Tokens(Drop(fmt, 2))
    ELSE <<Ch(fmt, 1)>> \o Tokens(Drop(fmt, 1))

RECURSIVE SpacePrefixLen(_)
SpacePrefixLen(s) ==
    IF s # "" /\ Ch(s, 1) \in Whitespace THEN 1 + SpacePrefixLen(Drop(s, 1)) ELSE 0

\* n, n-1, ..., 1
RECURSIVE DownFrom(_)
DownFrom(n) == IF n <= 0 THEN <<>> ELSE <<n>> \o DownFrom(n - 1)

\* <<n>> if b, else no candidate
Lengths(b, n) == IF b THEN <<n>> ELSE <<>>

\* the number s starts with, if it starts with two digits
TwoDigitNumber(s) ==
    IF IsDigit(Ch(s, 1)) /\ IsDigit(Ch(s, 2)) THEN StrToNat(Take(s, 2)) ELSE -1

\* the candidates of a directive for a number of one or two digits: two
\* digits when the number n2 they make is in range, then one digit; c1 is
\* the first character, zero says whether a single 0 will do
NumberLengths(c1, n2, range, zero) ==
    Lengths(n2 \in range, 2) \o Lengths(IsDigit(c1) /\ (zero \/ c1 # "0"), 1)

\* the name of the month that low starts with, or 0
FullMonth(low) ==
    IF \E k \in 1..12 : MonthNames[k] = Take(low, Len(MonthNames[k]))
    THEN CHOOSE k \in 1..12 : MonthNames[k] = Take(low, Len(MonthNames[k]))
    ELSE 0

\* the lengths of the prefixes of s that the regular expression of a token
\* can match, in the order the regular expression tries them
Candidates(tok, s) ==
    CASE tok = "%Y" -> Lengths(Len(s) >= 4 /\ AllDigits(Take(s, 4)), 4)
      [] tok = "%y" -> Lengths(TwoDigitNumber(s) >= 0, 2)
      \* 3[0-1]|[1-2]\d|0[1-9]|[1-9]| [1-9]
      [] tok = "%d" -> NumberLengths(Ch(s, 1), TwoDigitNumber(s), 1..31, FALSE)
                        \o Lengths(Ch(s, 1) = " " /\ IsDigit(Ch(s, 2))
                                   /\ Ch(s, 2) # "0", 2)
      \* 1[0-2]|0[1-9]|[1-9]
      [] tok = "%m" -> NumberLengths(Ch(s, 1), TwoDigitNumber(s), 1..12, FALSE)
      \* 2[0-3]|[0-1]\d|\d
      [] tok = "%H" -> NumberLengths(Ch(s, 1), TwoDigitNumber(s), 0..23, TRUE)
      \* [0-5]\d|\d
      [] tok = "%M" -> NumberLengths(Ch(s, 1), TwoDigitNumber(s), 0..59, TRUE)
      \* 6[0-1]|[0-5]\d|\d
      [] tok = "%S" -> NumberLengths(Ch(s, 1), TwoDigitNumber(s), 0..61, TRUE)
      [] tok = "%b" -> Lengths(\E k \in 1..12 :
                                  Take(MonthNames[k], 3) = Take(Lower(s), 3), 3)
      [] tok = "%B" -> IF FullMonth(Lower(s)) = 0 THEN <<>>
                       ELSE <<Len(MonthNames[FullMonth(Lower(s))])>>
      \* whitespace of the format is \s+
      [] tok \in Whitespace -> DownFrom(SpacePrefixLen(s))
      \* a literal character, compared ignoring case
      [] OTHER -> Lengths(s # "" /\ LowerCh(Ch(s, 1)) = LowerCh(tok), 1)

NoMatch == [ok |-> FALSE]

RECURSIVE Match(_, _, _, _)
RECURSIVE TryCandidates(_, _, _, _, _)
\* re.match of the tokens from the i-th on against s, backtracking over the
\* candidates: the groups matched and what is left of s, or NoMatch
Match(toks, i, s, groups) ==
    IF i > Len(toks) THEN [ok |-> TRUE, rest |-> s, groups |-> groups]
    ELSE TryCandidates(toks, i, s, groups, Candidates(toks[i], s))

\* the match m with the first candidate, or else the match with the others
MatchOrRetry(toks, i, s, groups, cands, m) ==
    IF m.ok THEN m ELSE TryCandidates(toks, i, s, groups, Tail(cands))

TryCandidates(toks, i, s, groups, cands) ==
    IF cands = <<>> THEN NoMatch
    ELSE MatchOrRetry(toks, i, s, groups, cands,
             Match(toks, i + 1, Drop(s, Head(cands)),
                   IF Ch(toks[i], 1) = "%"
                   THEN (toks[i] :> Take(s, Head(cands))) @@ groups
                   ELSE groups))

IsLeap(y) == y % 4 = 0 /\ (y % 100 # 0 \/ y % 400 = 0)

DaysInMonth(y, m) ==
    IF m = 2 THEN (IF IsLeap(y) THEN 29 ELSE 28)
    ELSE IF m \in {4, 6, 9, 11} THEN 30 ELSE 31

\* the number of the month whose name starts with the three letters of s
MonthOf(s) == CHOOSE k \in 1..12 : Take(MonthNames[k], 3) = Take(Lower(s), 3)

NoDate == [ok |-> FALSE, year |-> 0, month |-> 0, day |-> 0]

\* the date of year, month, day and second, if there is such a date and time
valid_date(year, month, day, second) ==
    IF year \in 1..9999 /\ day <= DaysInMonth(year, month) /\ second <= 59
    THEN [ok |-> TRUE, year |-> year, month |-> month, day |-> day]
    ELSE NoDate

\* the year of a %y group: 69 to 99 are 1969 to 1999
century(yy) == IF yy <= 68 THEN 2000 + yy ELSE 1900 + yy

\* the date of the groups g that the format matched
date_of_groups(g) ==
    valid_date(IF "%Y" \in DOMAIN g THEN StrToNat(g["%Y"])
               ELSE IF "%y" \in DOMAIN g THEN century(StrToNat(g["%y"]))
               ELSE 1900,
               IF "%m" \in DOMAIN g THEN StrToNat(g["%m"])
               ELSE IF "%b" \in DOMAIN g THEN MonthOf(g["%b"])
               ELSE IF "%B" \in DOMAIN g THEN MonthOf(g["%B"])
               ELSE 1,
               IF "%d" \in DOMAIN g
               THEN StrToNat(RemoveChars(g["%d"], {" "})) ELSE 1,
               IF "%S" \in DOMAIN g THEN StrToNat(g["%S"]) ELSE 0)

\* the date of the match m of the format, if it leaves no unconverted data
date_of_match(m) ==
    IF m.ok /\ m.rest = "" THEN date_of_groups(m.groups) ELSE NoDate

\* datetime.strptime(value, pattern): [ok, year, month, day], ok FALSE where
\* it raises ValueError (no match, unconverted data, or no such date or time)
strptime(value, pattern) ==
    date_of_match(Match(Tokens(pattern), 1, value, <<>>))

\* "%02d" % n
TwoDigits(n) == IF n < 10 THEN "0" \o NatToStr(n) ELSE NatToStr(n)

\* date.strftime("%Y-%m-%d"); the C library does not pad the year
strftime(date) ==
    NatToStr(date.year) \o "-" \o TwoDigits(date.month) \o "-" \o TwoDigits(date.day)

RECURSIVE FirstPattern(_, _)
RECURSIVE NextPattern(_, _, _)
\* the loop of normalise_date from the k-th pattern on
FirstPattern(value, k) ==
    IF k > Len(DatePatterns) THEN [ok |-> FALSE, s |-> ""]
    ELSE NextPattern(value, k, strptime(value, DatePatterns[k]))

\* lines 196 to 200, for the date of the k-th pattern
NextPattern(value, k, date) ==
    IF date.ok THEN [ok |-> TRUE, s |-> strftime(date)]
    ELSE FirstPattern(value, k + 1)

\* lines 202 and 203, for the outcome r of the loop
date_or_issue(fieldvalue, r) ==
    IF r.ok THEN Returned(r.s)
    ELSE Logged(log_issue(field, "date", fieldvalue))

\* normalise_date: it names the issue after the global field, not after its
\* first parameter
normalise_date(context, fieldvalue) ==
    date_or_issue(fieldvalue, FirstPattern(Strip(fieldvalue, {" ", "\"", ","}), 1))

----------------------------------------------------------------------------
(* validators.url, for URLs with a host name *)

PathChars ==
    {"-", ".", "_", "~", "%", "!", "$", "&", "'", "(", ")", "*", "+", ",",
     ";", "=", ":", "@", "/"}

SmallLetters == {Ch(LowerChars, i) : i \in 1..26}

IsAlpha(c) == c \in SmallLetters

IsAlnum(c) == IsAlpha(c) \/ IsDigit(c)

\* one label of a host name: letters and digits with single hyphens inside
IsLabel(l) ==
    /\ l # ""
    /\ \A i \in 1..Len(l) : IsAlnum(Ch(l, i)) \/ Ch(l, i) = "-"
    /\ Ch(l, 1) # "-"
    /\ Ch(l, Len(l)) # "-"
    /\ Find(l, "--", 1) = 0

RECURSIVE IsHost(_, _)
\* labels separated by dots, the last of them a top-level domain; n counts
\* the labels already seen
IsHost(h, n) ==
    LET i == Find(h, ".", 1)
    IN  IF i = 0
        THEN n >= 1 /\ Len(h) >= 2 /\ \A k \in 1..Len(h) : IsAlpha(Ch(h, k))
        ELSE IsLabel(Take(h, i - 1)) /\ IsHost(Drop(h, i), n + 1)

RECURSIVE HostPrefixLen(_)
HostPrefixLen(s) ==
    IF s # "" /\ (IsAlnum(Ch(s, 1)) \/ Ch(s, 1) \in {"-", "."})
    THEN 1 + HostPrefixLen(Drop(s, 1)) ELSE 0

RECURSIVE PathPrefixLen(_)
PathPrefixLen(s) ==
    IF s # "" /\ (IsAlnum(Ch(s, 1)) \/ Ch(s, 1) \in PathChars)
    THEN 1 + PathPrefixLen(Drop(s, 1)) ELSE 0

\* what may follow the path: query, fragment
IsQueryTail(t) ==
    /\ t = "" \/ Ch(t, 1) \in {"?", "#"}
    /\ \A i \in 1..Len(t) : Ch(t, i) \notin Whitespace

\* what may follow the port: path, query, fragment
IsPathTail(t) ==
    IsQueryTail(IF Ch(t, 1) = "/" THEN Drop(t, PathPrefixLen(t)) ELSE t)

\* what may follow the host: port of np digits, path, query, fragment
IsPortTail(t, np) == IsPathTail(IF np \in 2..5 THEN Drop(t, 1 + np) ELSE t)

\* what may follow the host: port, path, query, fragment
IsUrlTail(t) ==
    IsPortTail(t, IF Ch(t, 1) = ":" THEN DigitsPrefixLen(Drop(t, 1)) ELSE 0)

\* is rest a host of hl characters and what may follow it
IsHostAndTail(rest, hl) ==
    /\ Take(rest, hl) = "localhost" \/ IsHost(Take(rest, hl), 0)
    /\ IsUrlTail(Drop(rest, hl))

\* is low one of the schemes and ://, a host, and what may follow it
IsSchemeHostTail(low, n) ==
    /\ n > 0
    /\ IsHostAndTail(Drop(low, n), HostPrefixLen(Drop(low, n)))

\* the length of the scheme and :// that low starts with, or 0
SchemeLen(low) ==
    IF Take(low, 7) = "http://" THEN 7
    ELSE IF Take(low, 8) = "https://" THEN 8
    ELSE IF Take(low, 6) = "ftp://" THEN 6
    ELSE 0

\* the URL in small letters
IsLowerUrl(low) == IsSchemeHostTail(low, SchemeLen(low))

\* validators.url(uri): is uri scheme://host[:port][/path][?query][#fragment]
\* with scheme http, https or ftp, in any case
validators_url(uri) == IsLowerUrl(Lower(uri))

\* normalise_uri
normalise_uri(f, value) ==
    LET uri == JoinSplit(value)
    IN  IF validators_url(uri) THEN Returned(uri)
        ELSE Logged(log_issue(f, "uri", value))

----------------------------------------------------------------------------
(* The organisation index *)

\* d[k] = v
Put(d, k, v) == (k :> v) @@ d

EmptyDict == [k \in {} |-> ""]

\* lower_uri
lower_uri(value) == Lower(JoinSplit(value))

\* s without its characters up to the last "/"
AfterLastSlash(s) == Drop(s, RFindCh(s, "/"))

RECURSIVE end_of_uri_regex_sub(_)
\* end_of_uri.regex.sub("", s) for the regex .*/ , whose dot matches no
\* newline: every line loses its characters up to its last "/"
end_of_uri_regex_sub(s) ==
    LET i == Find(s, "\n", 1)
    IN  IF i = 0 THEN AfterLastSlash(s)
        ELSE AfterLastSlash(Take(s, i - 1)) \o "\n"
                \o end_of_uri_regex_sub(Drop(s, i))

\* end_of_uri
end_of_uri(value) == end_of_uri_regex_sub(Lower(RStrip(value, {"/"})))

RECURSIVE Replace(_, _, _)
\* str.replace(old, new) for a non-empty old
Replace(s, old, new) ==
    LET i == Find(s, old, 1)
    IN  IF i = 0 THEN s
        ELSE Take(s, i - 1) \o new \o Replace(Drop(s, i + Len(old) - 1), old, new)

\* the first loop without the registration under the end of the URI: what
\* C8 rules out
register_organisation_by_uri(index, r) ==
    IF "opendatacommunities" \in DOMAIN r
    THEN LET uri == Lower(r["opendatacommunities"])
         IN  Put(Put(index, uri, uri), Lower(r["statistical-geography"]), uri)
    ELSE index

\* the body of the first loop of load_organisations for one row of the
\* reference table: the index with the row's keys registered
register_organisation(index, r) ==
    IF "opendatacommunities" \in DOMAIN r
    THEN LET uri == Lower(r["opendatacommunities"])
             i1 == Put(index, uri, uri)
             i2 == Put(i1, end_of_uri(uri), uri)
             i3 == Put(i2, Lower(r["statistical-geography"]), uri)
             dl_url == Replace(Lower("https://digital-land.github.io/organisation/"
                                        \o r["organisation"] \o "/"),
                               "-eng:", "-eng/")
         IN  IF Find(r["organisation"], "local-authority-eng", 1) # 0
             THEN Put(i3, dl_url, uri)
             ELSE i3
    ELSE index

\* the body of the second loop of load_organisations for one row of the
\* patch table: [index, exc], exc "KeyError" where the row names an
\* organisation the reference table does not have
register_patch(index, orgs, r) ==
    LET value == lower_uri(r["value"])
    IN  IF r["organisation"] # ""
        THEN IF r["organisation"] \in DOMAIN orgs
             THEN [index |-> Put(index, value,
                                 orgs[r["organisation"]]["opendatacommunities"]),
                   exc |-> ""]
             ELSE [index |-> index, exc |-> "KeyError"]
        ELSE [index |-> index, exc |-> ""]

\* lines 151 to 159, for the lower-cased value and the end of it
organisation_or_issue(f, fieldvalue, value, s) ==
    IF value \in DOMAIN organisation_uri
    THEN Returned(organisation_uri[value])
    ELSE IF s \in DOMAIN organisation_uri
         THEN Returned(organisation_uri[s])
         ELSE Logged(log_issue(f, "opendatacommunities-uri", fieldvalue))

\* normalise_organisation_uri
normalise_organisation_uri(f, fieldvalue) ==
    organisation_or_issue(f, fieldvalue, lower_uri(fieldvalue),
                          end_of_uri(lower_uri(fieldvalue)))

----------------------------------------------------------------------------
(* Geometry *)

\* floor(|d| * 10) of a finite d, capped above every bound of the box, and
\* whether |d| * 10 has a fractional part
Tenths(d) ==
    LET leftdigits == Len(d.int) + d.exp
        keep == leftdigits + 1
    IN  IF leftdigits > 4 THEN [f |-> 100000, r |-> FALSE]
        ELSE IF d.exp + 1 >= 0
             THEN [f |-> StrToNat(d.int \o Zeros(d.exp + 1)), r |-> FALSE]
             ELSE [f |-> IF keep <= 0 THEN 0 ELSE StrToNat(Take(d.int, keep)),
                   r |-> LET rest == Drop(d.int, keep)
                         IN  rest # Zeros(Len(rest))]

\* d > t / 10, for a finite d of m tenths
MoreTenths(d, m, t) ==
    IF d.sign = 0
    THEN t < 0 \/ m.f > t \/ (m.f = t /\ m.r)
    ELSE t < 0 /\ m.f < 0 - t

\* d < t / 10, for a finite d of m tenths
FewerTenths(d, m, t) ==
    IF d.sign = 0
    THEN m.f < t
    ELSE t > 0 \/ m.f > 0 - t \/ (m.f = 0 - t /\ m.r)

\* d > t / 10, for a number d that is not a NaN
GreaterThan(d, t) ==
    IF d.kind = "inf" THEN d.sign = 0 ELSE MoreTenths(d, Tenths(d), t)

\* d < t / 10, for a number d that is not a NaN
LessThan(d, t) ==
    IF d.kind = "inf" THEN d.sign = 1 ELSE FewerTenths(d, Tenths(d), t)

IsNaN(d) == d.kind \in {"nan", "snan"}

\* the comparisons of geox, where y says that those of geoy hold
within_england_x(geox, geoy, y) ==
    IF IsNaN(geoy) \/ (y /\ IsNaN(geox))
    THEN [exc |-> "InvalidOperation", v |-> FALSE]
    ELSE [exc |-> "", v |-> y /\ GreaterThan(geox, -70) /\ LessThan(geox, 20)]

\* within_england: [exc, v]; an ordering comparison of a Decimal NaN raises
\* InvalidOperation, and "and" stops at the first false comparison
within_england(geox, geoy) ==
    within_england_x(geox, geoy,
        ~IsNaN(geoy) /\ GreaterThan(geoy, 495) /\ LessThan(geoy, 560))

\* a float of the transformer, to six places
Degrees(sign, digits) == Finite(sign, digits, -6)

\* the projection's answer outside its domain
OffTheMap == [lat |-> Special("inf", 0, ""), lon |-> Special("inf", 0, "")]

\* the transform of the point with coordinates e and n as strings; near says
\* that it is within a kilometre of the false origin
transform(e, n, near) ==
    CASE <<e, n>> = <<"5.3E+5", "1.8E+5">> ->
            [lat |-> Degrees(0, "51503991"), lon |-> Degrees(1, "128354")]
      [] <<e, n>> = <<"1.8E+5", "5.3E+5">> ->
            [lat |-> Degrees(0, "54617076"), lon |-> Degrees(1, "5408900")]
      [] <<e, n>> = <<"6E+5", "5E+4">> ->
            [lat |-> Degrees(0, "50316008"), lon |-> Degrees(0, "807912")]
      [] <<e, n>> = <<"5E+4", "6E+5">> ->
            [lat |-> Degrees(0, "55170022"), lon |-> Degrees(1, "7499017")]
      [] near ->
            [lat |-> Degrees(0, "49766806"), lon |-> Degrees(1, "7557160")]
      [] OTHER -> OffTheMap

\* is d less than a kilometre
UnderAKilometre(d) == d.kind = "finite" /\ Len(d.int) + d.exp <= 3

\* osgb_to_wgs84.transform(easting, northing) at the grid points the input
\* rows use, to six places: EPSG:27700 to EPSG:4326, latitude first.  Every
\* point within a kilometre of the false origin lies near 49.77N 7.56W.
osgb_to_wgs84(easting, northing) ==
    transform(str(normalize(easting)), str(normalize(northing)),
              UnderAKilometre(easting) /\ UnderAKilometre(northing))

\* only GeoX set, GeoY left as it was: what C5 rules out
WithGeoX(r, x, y) == ("GeoX" :> x) @@ r

\* the row with GeoX and GeoY set
WithGeo(r, x, y) == ("GeoX" :> x) @@ ("GeoY" :> y) @@ r

\* the outcome of the acceptance tests: the pair that passed and the name of
\* its test
Chosen(lon, lat, test) == [exc |-> "", lon |-> lon, lat |-> lat, test |-> test]

\* a comparison of the acceptance tests raised
TestRaised ==
    [exc |-> "InvalidOperation", lon |-> NotADecimal, lat |-> NotADecimal,
     test |-> ""]

\* all four acceptance tests failed
NoneChosen ==
    [exc |-> "", lon |-> NotADecimal, lat |-> NotADecimal, test |-> "none"]

\* lines 100 to 104: the two tests of the transformed pairs t1 and t2
test_osgb(t1, t2) ==
    IF within_england(t1.lon, t1.lat).v THEN Chosen(t1.lon, t1.lat, "OSGB")
    ELSE IF within_england(t2.lon, t2.lat).v
         THEN Chosen(t2.lon, t2.lat, "OSGB swapped")
         ELSE NoneChosen

\* lines 98 and 99: the test of the pair swapped
test_swapped(geox, geoy, swapped) ==
    IF swapped.exc # "" THEN TestRaised
    ELSE IF swapped.v THEN Chosen(geoy, geox, "swapped")
    ELSE test_osgb(osgb_to_wgs84(geox, geoy), osgb_to_wgs84(geoy, geox))

\* lines 96 and 97: the test of the pair as it is
test_direct(geox, geoy, direct) ==
    IF direct.exc # "" THEN TestRaised
    ELSE IF direct.v THEN Chosen(geox, geoy, "direct")
    ELSE test_swapped(geox, geoy, within_england(geoy, geox))

\* the function raised after the pair was blanked
raised_blank(r) ==
    [row |-> WithGeo(r, "", ""), log |-> <<>>, exc |-> "InvalidOperation",
     test |-> ""]

\* lines 108 and 109: the pair set to the formatted x and y
formatted_pair(r, x, y, test) ==
    IF x.ok /\ y.ok
    THEN [row |-> WithGeo(WithGeo(r, "", ""), x.s, y.s), log |-> <<>>,
          exc |-> "", test |-> test]
    ELSE raised_blank(r)

\* lines 104 to 110, for the outcome c of the acceptance tests: the issue of
\* line 105 joins the pair after lines 90 and 91 have blanked it
pair_or_issue(r, c) ==
    IF c.exc # "" THEN raised_blank(r)
    ELSE IF c.test = "none"
    THEN [row |-> WithGeo(r, "", ""),
          log |-> log_issue("GeoX,GeoY", "OSGB",
                            WithGeo(r, "", "")["GeoX"] \o ","
                                \o WithGeo(r, "", "")["GeoY"]),
          exc |-> "", test |-> "none"]
    ELSE formatted_pair(r, format_decimal(c.lon, DefaultPrecision),
                        format_decimal(c.lat, DefaultPrecision), c.test)

\* lines 87 to 110, for the Decimals of the pair
geometry_of(r, geox, geoy) ==
    IF geox.kind = "invalid" \/ geoy.kind = "invalid"
    THEN [row |-> r, log |-> <<>>, exc |-> "InvalidOperation", test |-> ""]
    ELSE pair_or_issue(r, test_direct(geox, geoy, within_england(geox, geoy)))

\* normalise_geometry: [row, log, exc, test]; test names the acceptance test
\* that passed ("" when the function returned or raised before the tests,
\* "none" when all four failed)
normalise_geometry(r) ==
    IF Get(r, "GeoX", "") = "" \/ Get(r, "GeoY", "") = ""
    THEN [row |-> r, log |-> <<>>, exc |-> "", test |-> ""]
    ELSE geometry_of(r, Decimal(r["GeoX"]), Decimal(r["GeoY"]))

----------------------------------------------------------------------------
(* The schema and normalise *)

\* fieldnames (line 33)
fieldnames == [i \in 1..Len(schema.fields) |-> schema.fields[i].name]

\* fields[fieldname] (line 32): the last field of that name
fields(fieldname) ==
    schema.fields[CHOOSE i \in 1..Len(schema.fields) :
                    /\ schema.fields[i].name = fieldname
                    /\ \A j \in i + 1..Len(schema.fields) :
                          schema.fields[j].name # fieldname]

\* the values normalise takes for "no data"
NullValues == {"", "-", "n/a", "#n/a", "???", "<null>"}

\* the test of line 218 without the case folding: what C2 rules out
is_null_exact(value) == value \in NullValues

\* the test of line 218
is_null(value) == Lower(value) \in NullValues

\* re.sub(strip, "", value) for a strip pattern that is a literal string
re_sub(strip, value) == Replace(value, strip, "")

RECURSIVE strip_all(_, _)
\* the loop over the strip patterns of the field
strip_all(strips, value) ==
    IF strips = <<>> THEN value
    ELSE strip_all(Tail(strips), re_sub(Head(strips), value))

\* the value a branch of normalise receives
stripped(fieldname, value) ==
    strip_all(Get(Get(fields(fieldname), "digital-land", EmptyDict), "strip", <<>>),
              value)

\* the branch normalise takes for a field, by the label its issues carry
\* ("" for the pass-through of the last line)
branch(fieldname) ==
    LET f == fields(fieldname)
    IN  IF fieldname = "OrganisationURI" THEN "opendatacommunities-uri"
        ELSE IF Get(f, "type", "") = "integer" THEN "integer"
        ELSE IF Get(f, "type", "") = "number" THEN "decimal"
        ELSE IF Get(f, "format", "") = "uri" THEN "uri"
        ELSE IF Get(f, "type", "") = "date" THEN "date"
        ELSE ""

\* lines 227 to 242: the branch b for the stripped value
dispatch(fieldname, value, b) ==
    CASE b = "opendatacommunities-uri" ->
            normalise_organisation_uri(fieldname, value)
      [] b = "integer" -> normalise_integer(fieldname, value)
      [] b = "decimal" ->
            normalise_decimal(fieldname, value,
                Get(Get(fields(fieldname), "digital-land", EmptyDict),
                    "precision", 6))
      [] b = "uri" -> normalise_uri(fieldname, value)
      [] b = "date" -> normalise_date(fieldname, value)
      [] OTHER -> Returned(value)

\* normalise
normalise(fieldname, value) ==
    IF is_null(value) THEN Returned("")
    ELSE dispatch(fieldname, stripped(fieldname, value), branch(fieldname))

----------------------------------------------------------------------------
(* The schemas, tables and input rows of the model *)

Field(name, type) == [name |-> name, type |-> type]

WithExtras(f, extras) == ("digital-land" :> extras) @@ f

SchemaOrganisation ==
    [fields |->
        << [name |-> "OrganisationURI", type |-> "string", format |-> "uri"],
           WithExtras(Field("SiteReference", "string"), [strip |-> <<",">>]),
           WithExtras(Field("MinNetDwellings", "integer"), [strip |-> <<",">>]) >>]

SchemaGeometry ==
    [fields |->
        << Field("GeoX", "number"),
           Field("GeoY", "number"),
           WithExtras(Field("Hectares", "number"), [precision |-> 2]) >>]

SchemaDates ==
    [fields |->
        << Field("FirstAddedDate", "date"),
           [name |-> "SiteplanURL", type |-> "string", format |-> "uri"],
           Field("Notes", "string") >>]

Org(id, uri, code) ==
    ("statistical-geography" :> code)
        @@ [organisation |-> id, opendatacommunities |-> uri]

Patch(value, id) == [value |-> value, organisation |-> id]

ReferenceTables ==
    { << Org("local-authority-eng:ABC", "http://odc.org/id/abc", "E07000001"),
         Org("development-corporation:XYZ", "http://odc.org/id/xyz", "E51000002") >>,
      << Org("local-authority-eng:ABC", "http://odc.org/id/ABC", "E07000001"),
         Org("national-park:Q1", "http://odc.org/id/q 1", "E 26") >>,
      << Org("local-authority-eng:ABC", "http://odc.org/id/abc", ""),
         Org("national-park:Q1", "http://odc.org/id/q1", "") >> }

PatchTables ==
    { << >>,
      << Patch("Abc  Council", "local-authority-eng:ABC") >>,
      << Patch("nowhere", ""),
         Patch("Abc  Council", "local-authority-eng:ABC") >>,
      << Patch("Zed Council", "local-authority-eng:ZED"),
         Patch("Abc  Council", "local-authority-eng:ABC") >>,
      << Patch("http://odc.org/id/abc", "development-corporation:XYZ") >> }

Configurations ==
    [schema : {SchemaOrganisation}, reference : ReferenceTables,
     patch : PatchTables]
    \cup
    [schema : {SchemaGeometry, SchemaDates},
     reference : {<< Org("local-authority-eng:ABC", "http://odc.org/id/abc",
                         "E07000001") >>},
     patch : {<< >>}]

\* the input row with the given values, in the order of the schema
Row(values) ==
    [name \in {fieldnames[i] : i \in 1..Len(fieldnames)} |->
        values[CHOOSE i \in 1..Len(fieldnames) : fieldnames[i] = name]]

\* that URI's final path segment: what follows the last "/" of the URI
\* without its trailing slashes
FinalSegment(uri) == AfterLastSlash(RStrip(uri, {"/"}))

\* the strings under which an entry of the reference table is to be found
Variants(entry) ==
    { entry["opendatacommunities"],
      Lower(entry["opendatacommunities"]),
      FinalSegment(entry["opendatacommunities"]),
      entry["statistical-geography"] }

OrganisationRows ==
    { Row(v) : v \in
        { <<"Abc Council", "S,1", "1,000">>,
          <<"https://digital-land.github.io/organisation/local-authority-eng/ABC/",
            "-,", "42.0000">>,
          <<"no such council", " n/a ", "abc.0">>,
          <<"N/A", "N/A", "#N/A">>,
          <<"-", "plain", " n/a ">>,
          <<"http://odc.org/id/xyz/", "???", "-7">>,
          <<"http://odc. org/id/ABC", "<NULL>", "1,2x">> } }
    \cup
    { Row(<<v, "S1", "12">>) :
        v \in UNION {Variants(reference[i]) : i \in 1..Len(reference)} }

GeometryRows ==
    { Row(v) : v \in
        { <<"-0.127", "51.5", "1.005">>,
          <<"51.5", "-0.127", "100">>,
          <<"530000", "180000", "3.14159265">>,
          <<"50000", "600000", "0.0000025">>,
          <<"0", "0", "2">>,
          <<"1.5", "", "1.500000">>,
          <<"", "", "N/A">>,
          <<"abc", "51.5", " n/a ">>,
          <<"NaN", "51.5", "0.125">>,
          <<"1", "1E+21", "1E+30">>,
          <<"-0.1275005", "51.5000015", "Infinity">>,
          <<"2", "56", "-0.0000035">> } }

DateRows ==
    { Row(v) : v \in
        { <<"2020-01-31", "http://example.com/a", "text">>,
          <<"31/01/2020", "HTTP://Example.com/x y", " n/a ">>,
          <<"not-a-date", "example.com/x", "">>,
          <<"01-02-2020", "https://example.com/a\n/b?c=d", "-">>,
          <<" \"2020.0\",", "ftp://example", "N/A">>,
          <<"20200131", "n/a", "???">>,
          <<"Jan 5, 2020", "mailto:a@example.com", "a, b">>,
          <<"13/25/2020", "https://example.com:8080/", "<null>">> } }

\* the rows the reader may yield
SampleRows ==
    IF schema = SchemaOrganisation THEN OrganisationRows
    ELSE IF schema = SchemaGeometry THEN GeometryRows
    ELSE DateRows

----------------------------------------------------------------------------
(* The script *)

NoCall == [fieldname |-> "", value |-> "", ret |-> "", log |-> <<>>, exc |-> ""]

NoGeo == [before |-> EmptyDict, row |-> EmptyDict, log |-> <<>>, exc |-> "",
          test |-> ""]

Init ==
    /\ \E c \in Configurations :
          /\ schema = c.schema
          /\ reference = c.reference
          /\ patch = c.patch
    /\ pc = "load_reference"
    /\ organisation = EmptyDict
    /\ organisation_uri = EmptyDict
    /\ ri = 0
    /\ row_number = 0
    /\ input = <<>>
    /\ row = EmptyDict
    /\ fi = 0
    /\ field = ""
    /\ o = EmptyDict
    /\ output = <<>>
    /\ log = <<>>
    /\ call = NoCall
    /\ geo = NoGeo
    /\ exc = ""

\* load_organisations, first loop: one row of the reference table
LoadOrganisation ==
    /\ pc = "load_reference"
    /\ ri < Len(reference)
    /\ organisation' = Put(organisation, reference[ri + 1]["organisation"],
                           reference[ri + 1])
    /\ organisation_uri' = register_organisation(organisation_uri, reference[ri + 1])
    /\ IF ri + 1 < Len(reference)
       THEN ri' = ri + 1 /\ pc' = pc
       ELSE ri' = 0 /\ pc' = IF patch = <<>> THEN "read" ELSE "load_patch"
    /\ UNCHANGED <<schema, reference, patch, row_number, input, row, fi, field,
                   o, output, log, call, geo, exc>>

\* the outcome r of register_patch takes effect
Patched(r) ==
    IF r.exc # ""
    THEN /\ pc' = "raised"
         /\ exc' = r.exc
         /\ UNCHANGED <<organisation_uri, ri>>
    ELSE /\ organisation_uri' = r.index
         /\ ri' = ri + 1
         /\ pc' = IF ri + 1 < Len(patch) THEN pc ELSE "read"
         /\ exc' = exc

\* load_organisations, second loop: one row of the patch table
LoadPatch ==
    /\ pc = "load_patch"
    /\ ri < Len(patch)
    /\ Patched(register_patch(organisation_uri, organisation, patch[ri + 1]))
    /\ UNCHANGED <<schema, reference, patch, organisation, row_number, input,
                   row, fi, field, o, output, log, call, geo>>

\* the reader yields a row: lines 254 to 257
ReadRow ==
    /\ pc = "read"
    /\ Len(input) < MaxRows
    /\ \E r \in SampleRows :
          /\ input' = Append(input, r)
          /\ row' = r
    /\ row_number' = row_number + 1
    /\ o' = EmptyDict
    /\ fi' = 0
    /\ field' = fieldnames[1]
    /\ pc' = "normalise"
    /\ UNCHANGED <<schema, reference, patch, organisation, organisation_uri, ri,
                   output, log, call, geo, exc>>

\* the reader is exhausted: the loop and the script end
EndOfInput ==
    /\ pc = "read"
    /\ pc' = "done"
    /\ UNCHANGED <<schema, reference, patch, organisation, organisation_uri, ri,
                   row_number, input, row, fi, field, o, output, log, call,
                   geo, exc>>

\* the outcome r of normalise takes effect: the value is stored and the
\* issues are logged, or the exception ends the script
Normalised(r) ==
    /\ call' = [fieldname |-> field, value |-> row[field], ret |-> r.ret,
                log |-> r.log, exc |-> r.exc]
    /\ IF r.exc # ""
       THEN /\ pc' = "raised"
            /\ exc' = r.exc
            /\ UNCHANGED <<o, log, fi, field>>
       ELSE /\ o' = Put(o, field, r.ret)
            /\ log' = log \o r.log
            /\ exc' = exc
            /\ fi' = fi + 1
            /\ IF fi + 1 < Len(fieldnames)
               THEN field' = fieldnames[fi + 2] /\ pc' = pc
               ELSE field' = field /\ pc' = "geometry"

\* line 258 for the field at hand, and the step of the loop of line 257
NormaliseField ==
    /\ pc = "normalise"
    /\ Normalised(normalise(field, row[field]))
    /\ UNCHANGED <<schema, reference, patch, organisation, organisation_uri, ri,
                   row_number, input, row, output, geo>>

\* the outcome g of normalise_geometry takes effect
GeometryNormalised(g) ==
    /\ geo' = [before |-> o, row |-> g.row, log |-> g.log, exc |-> g.exc,
               test |-> g.test]
    /\ IF g.exc # ""
       THEN /\ pc' = "raised"
            /\ exc' = g.exc
            /\ UNCHANGED <<o, log>>
       ELSE /\ o' = g.row
            /\ log' = log \o g.log
            /\ exc' = exc
            /\ pc' = "write"

\* line 260
NormaliseGeometry ==
    /\ pc = "geometry"
    /\ GeometryNormalised(normalise_geometry(o))
    /\ UNCHANGED <<schema, reference, patch, organisation, organisation_uri, ri,
                   row_number, input, row, fi, field, output, call>>

\* line 262
WriteRow ==
    /\ pc = "write"
    /\ output' = Append(output, o)
    /\ pc' = "read"
    /\ UNCHANGED <<schema, reference, patch, organisation, organisation_uri, ri,
                   row_number, input, row, fi, field, o, log, call, geo, exc>>

Next ==
    \/ LoadOrganisation
    \/ LoadPatch
    \/ ReadRow
    \/ EndOfInput
    \/ NormaliseField
    \/ NormaliseGeometry
    \/ WriteRow

Spec == Init /\ [][Next]_vars

----------------------------------------------------------------------------
(* Properties *)

\* normalise has been called and has returned
Called == call.fieldname # "" /\ call.exc = ""

\* normalise_geometry has been called and has returned
GeoCalled == geo # NoGeo /\ geo.exc = ""

\* the six strings the specification lists as meaning "no data"
NoData == {"", "-", "n/a", "#n/a", "???", "<null>"}

\* C1: the row loop runs to completion whatever the values, and writes one
\* output row for every input row: no exception ends the run once the first
\* row is read, and between rows as many rows are written as were read
C1_RowLoopCompletes ==
    /\ ~(pc = "raised" /\ Len(input) > 0)
    /\ pc \in {"read", "done"} => Len(output) = Len(input)

\* C2 as claimed: a value whose trimmed, lower-cased form means "no data"
\* normalises to "" and logs nothing
C2_NoDataTrimmed ==
    (call.fieldname # "" /\ Lower(Strip(call.value, Whitespace)) \in NoData)
        => call = [fieldname |-> call.fieldname, value |-> call.value,
                   ret |-> "", log |-> <<>>, exc |-> ""]

\* C2 as amended: a value whose lower-cased form, untrimmed, means "no data"
\* normalises to "" and logs nothing, whatever the type of the field
C2_NoDataCaseFolded ==
    (call.fieldname # "" /\ Lower(call.value) \in NoData)
        => call = [fieldname |-> call.fieldname, value |-> call.value,
                   ret |-> "", log |-> <<>>, exc |-> ""]

C2_Witness ==
    /\ call.fieldname = "MinNetDwellings"
    /\ call.value = "#N/A"
    /\ call.ret = ""
    /\ call.log = <<>>

\* C3: the issue a failing scalar branch logs carries the field name, the
\* label of the branch and the raw value normalise was called with
C3_IssueCarriesRawValue ==
    (Called /\ call.log # <<>>)
        => call.log = << ("row-number" :> row_number)
                           @@ [field |-> call.fieldname,
                               datatype |-> branch(call.fieldname),
                               value |-> call.value] >>

\* C4: a pair that fails all four acceptance tests comes back blank, with
\* one issue logged for "GeoX,GeoY" of datatype "OSGB" whose value is the
\* pair as it came in, joined by a comma
C4_FailedPairLogged ==
    (GeoCalled /\ geo.test = "none")
        => /\ geo.row["GeoX"] = "" /\ geo.row["GeoY"] = ""
           /\ geo.log = << ("row-number" :> row_number)
                             @@ [field |-> "GeoX,GeoY", datatype |-> "OSGB",
                                 value |-> geo.before["GeoX"] \o ","
                                            \o geo.before["GeoY"]] >>

\* C5 as claimed: after normalise_geometry GeoX is blank exactly when GeoY is
C5_NoHalfPair ==
    GeoCalled => (Get(geo.row, "GeoX", "") = "" <=> Get(geo.row, "GeoY", "") = "")

\* C5 as amended: a row with a blank GeoX or GeoY comes back unchanged, and
\* a row with both present comes back with both blank or both filled
C5_PairBlankTogether ==
    GeoCalled =>
        IF Get(geo.before, "GeoX", "") = "" \/ Get(geo.before, "GeoY", "") = ""
        THEN geo.row = geo.before
        ELSE geo.row["GeoX"] = "" <=> geo.row["GeoY"] = ""

C5_Witness ==
    /\ GeoCalled
    /\ Get(geo.before, "GeoX", "") # ""
    /\ Get(geo.before, "GeoY", "") # ""
    /\ geo.row["GeoX"] = ""
    /\ geo.row["GeoY"] = ""

\* the coefficient of d at exponent -p, rounded half away from zero
HalfAwayDigits(d, p) ==
    IF d.exp >= 0 - p THEN d.int \o Zeros(d.exp + p)
    ELSE LET keep == Len(d.int) + d.exp + p
             head == IF keep <= 0 THEN "0" ELSE Take(d.int, keep)
             next == IF keep < 0 THEN "0" ELSE Ch(d.int, keep + 1)
         IN  IF next \in {"5", "6", "7", "8", "9"} THEN IncDigits(head) ELSE head

\* d rounded to p places half away from zero, in positional notation without
\* trailing fractional zeros
PositionalRounded(d, p) ==
    LET c == HalfAwayDigits(d, p)
        padded == Zeros(p + 1 - Len(c)) \o c
        intpart == StripLeadingZeros(Take(padded, Len(padded) - p))
        frac == RStrip(Drop(padded, Len(padded) - p), {"0"})
        body == intpart \o (IF frac = "" THEN "" ELSE "." \o frac)
    IN  (IF d.sign = 1 /\ body # "0" THEN "-" ELSE "") \o body

\* C6: a value of a number field that parses as a decimal is returned
\* rounded half away from zero to the precision the field declares (6 when
\* it declares none), in positional notation
C6_DecimalRoundedToPrecision ==
    (/\ call.fieldname # ""
     /\ branch(call.fieldname) = "decimal"
     /\ ~is_null(call.value)
     /\ Decimal(stripped(call.fieldname, call.value)).kind = "finite")
        => /\ call.exc = ""
           /\ call.log = <<>>
           /\ call.ret =
                PositionalRounded(
                    Decimal(stripped(call.fieldname, call.value)),
                    Get(Get(fields(call.fieldname), "digital-land", EmptyDict),
                        "precision", 6))

\* C7: normalising what normalise returned for a field other than GeoX and
\* GeoY returns it again and logs nothing
C7_Idempotent ==
    (Called /\ call.fieldname \notin {"GeoX", "GeoY"})
        => normalise(call.fieldname, call.ret) = Returned(call.ret)


HasSpace(s) == \E i \in 1..Len(s) : Ch(s, i) \in Whitespace

\* a later row of the reference table, or a row of the patch table,
\* registers the key again
RegisteredAgain(i, key) ==
    \/ \E j \in i + 1..Len(reference) :
          key \in DOMAIN register_organisation(EmptyDict, reference[j])
    \/ \E j \in 1..Len(patch) :
          key \in DOMAIN register_patch(EmptyDict, organisation, patch[j]).index

\* normalise has passed a value of the OrganisationURI field on to
\* normalise_organisation_uri, which has returned
ResolverCalled ==
    Called /\ call.fieldname = "OrganisationURI" /\ ~is_null(call.value)

\* C8 as claimed: every entry of the reference table is found, with no
\* issue, under its URI, its URI in lower case, the final segment of its URI
\* and its statistical-geography code, whatever the two tables hold
C8_EveryEntryFound ==
    ResolverCalled =>
        \A i \in 1..Len(reference) :
            stripped(call.fieldname, call.value) \in Variants(reference[i])
                => /\ call.ret \in {reference[i]["opendatacommunities"],
                                    Lower(reference[i]["opendatacommunities"])}
                   /\ call.log = <<>>

\* C8 as amended: the entry is found, as its URI in lower case, when its URI
\* and code hold no whitespace and no later row of the reference table and
\* no row of the patch table registers the same key
C8_EntryFoundUnlessRegisteredAgain ==
    ResolverCalled =>
        \A i \in 1..Len(reference) :
            (/\ stripped(call.fieldname, call.value) \in Variants(reference[i])
             /\ ~HasSpace(reference[i]["opendatacommunities"])
             /\ ~HasSpace(reference[i]["statistical-geography"])
             /\ ~RegisteredAgain(i, Lower(stripped(call.fieldname, call.value))))
                => /\ call.ret = Lower(reference[i]["opendatacommunities"])
                   /\ call.log = <<>>

C8_Witness ==
    /\ ResolverCalled
    /\ call.value = "E07000001"
    /\ reference[1]["statistical-geography"] = "E07000001"
    /\ call.ret = Lower(reference[1]["opendatacommunities"])
    /\ call.log = <<>>

\* C9: a row of the patch table whose organisation is blank, or is not in
\* the reference table, leaves the index as it is, and the loop goes on
C9_PatchRowSkipped ==
    [][(/\ pc = "load_patch"
        /\ \/ patch[ri + 1]["organisation"] = ""
           \/ patch[ri + 1]["organisation"] \notin DOMAIN organisation)
          => /\ organisation_uri' = organisation_uri
             /\ pc' \in {"load_patch", "read"}]_vars

\* the row numbers of the issue log never decrease
RowNumbersAscend ==
    \A i \in 1..Len(log) : \A j \in i..Len(log) :
        log[i]["row-number"] <= log[j]["row-number"]

\* C10: the counter goes up by one when a row is read, before any of its
\* fields is normalised, and at no other time; every issue logged while the
\* k-th row is processed carries k; the row numbers of the log never decrease
C10_RowCounter ==
    /\ [](row_number = Len(input) /\ RowNumbersAscend)
    /\ [][/\ Len(input') = Len(input) + 1
             => row_number' = row_number + 1 /\ log' = log /\ call' = call
          /\ Len(input') = Len(input) => row_number' = row_number
          /\ \A i \in Len(log) + 1..Len(log') :
                log'[i]["row-number"] = Len(input) /\ Len(input) >= 1]_vars

C10_Witness ==
    /\ Len(log) >= 3
    /\ log[1]["row-number"] = 1
    /\ log[2]["row-number"] = 1
    /\ log[Len(log)]["row-number"] = 2

====
